---- MODULE Spec2Model ----
(***************************************************************************)
(* empd (src/src/main.rs): inspects one filesystem path, classifies it     *)
(* (empty / non-empty directory, empty / non-empty file, dangling / live   *)
(* symbolic link), and with --delete-if-empty offers a one-shot,           *)
(* confirmation-gated removal of an "empty" path.                          *)
(*                                                                         *)
(* The model is the control flow of start() and main(), one action per     *)
(* system call (plus the code that follows it up to the next system call), *)
(* over a small filesystem of three names.  Every system call is computed  *)
(* from the filesystem state, so that a race with the environment shows   *)
(* up as the error result the real call would give.                        *)
(***************************************************************************)
EXTENDS Integers, Sequences, FiniteSets, TLC

VARIABLES
    fs,              \* the filesystem: name -> node
    fs0,             \* the filesystem when the current invocation started
    flaky,           \* environment: may I/O calls fail for reasons outside fs?
    envMoves,        \* number of concurrent filesystem mutations so far
    delete_if_empty, \* EmpdArgs.delete_if_empty
    path,            \* EmpdArgs.path, as [abs, name]
    pc,              \* position in main()/start()
    me,              \* the metadata returned by the top-level probe
    canonicalize_result, \* Option<String> of start(): None or Some(form)
    link_path_buf,   \* the one-hop target read from the symbolic link
    read_dir,        \* the entries the directory iterator still has to yield
    directories,     \* u32 counters of start()
    files,
    symlinks,
    input,           \* the String read_line filled
    report,          \* the classification reported on stdout, with its numbers
    exit_code,       \* start()'s local exit_code: Result<(), i32>
    result,          \* what start() returned: anyhow::Result<Result<(), i32>>
    exitStatus,      \* the exit status of the process, -1 while it runs
    trace,           \* system calls issued and messages emitted, in order
    removed,         \* the removal call's result, and the node it was issued on
    run,             \* number of the current invocation
    history          \* one record per finished invocation

vars == <<fs, fs0, flaky, envMoves, delete_if_empty, path, pc, me, canonicalize_result,
          link_path_buf, read_dir, directories, files, symlinks, input, report,
          exit_code, result, exitStatus, trace, removed, run, history>>

progVars == <<me, canonicalize_result, link_path_buf, read_dir, directories,
              files, symlinks, input, report, exit_code, result, exitStatus,
              removed>>

(***************************************************************************)
(* Bounds of the model.                                                    *)
(***************************************************************************)
MaxEntries == 2    \* immediate entries of a directory
MaxLen == 2        \* byte length of a regular file
MaxRuns == 2       \* invocations in a row
MaxEnvMoves == 1   \* concurrent mutations by the environment per behaviour

(***************************************************************************)
(* The filesystem.                                                         *)
(***************************************************************************)
Names == {"p", "t", "u"}

\* kinds a directory entry's file_type() can have
EntryKinds == {"dir", "file", "symlink", "other"}

RECURSIVE SeqsUpTo(_, _)
SeqsUpTo(S, n) ==
    IF n = 0 THEN {<<>>}
    ELSE LET shorter == SeqsUpTo(S, n - 1)
         IN  shorter \cup {Append(s, x) : s \in {q \in shorter : Len(q) = n - 1}, x \in S}

Node(k, l, es, to) == [kind |-> k, len |-> l, entries |-> es, to |-> to]
Absent == Node("absent", 0, <<>>, "-")
NoAccess == Node("noaccess", 0, <<>>, "-")   \* lstat gives EACCES
IoError == Node("ioerror", 0, <<>>, "-")     \* lstat gives another error (ENOTDIR, EIO)
Other == Node("other", 0, <<>>, "-")         \* socket, fifo, device
File(l) == Node("file", l, <<>>, "-")
Dir(es) == Node("dir", 0, es, "-")
Link(to) == Node("symlink", 0, <<>>, to)

Files == {File(l) : l \in 0..MaxLen}
Dirs == {Dir(es) : es \in SeqsUpTo(EntryKinds, MaxEntries)}
Links == {Link(n) : n \in Names}

(***************************************************************************)
(* Paths and canonical forms.  A path string is [abs, name]: whether it is *)
(* spelled absolute, and the name it denotes.                              *)
(***************************************************************************)
PathStr(a, n) == [abs |-> a, name |-> n]
NoPath == PathStr(FALSE, "-")

(***************************************************************************)
(* System calls, computed from the filesystem.                             *)
(***************************************************************************)
SysErr(e) == [ok |-> FALSE, err |-> e, kind |-> "-", len |-> 0, name |-> "-",
              entries |-> <<>>]
SysOk(k, l, n, es) == [ok |-> TRUE, err |-> "-", kind |-> k, len |-> l, name |-> n,
                       entries |-> es]

\* fs::symlink_metadata: lstat, the last component is not followed
SymlinkMetadata(f, n) ==
    CASE f[n].kind = "absent" -> SysErr("NotFound")
      [] f[n].kind = "noaccess" -> SysErr("PermissionDenied")
      [] f[n].kind = "ioerror" -> SysErr("Other")
      [] OTHER -> SysOk(f[n].kind, f[n].len, n, <<>>)

\* the links a resolution follows before it gives up with ELOOP
SymlinkHops == Cardinality(Names)

\* realpath: follow the chain of symbolic links to the object it ends at
RECURSIVE Resolve(_, _, _)
Resolve(f, n, hops) ==
    CASE f[n].kind = "absent" -> SysErr("NotFound")
      [] f[n].kind = "noaccess" -> SysErr("PermissionDenied")
      [] f[n].kind = "ioerror" -> SysErr("Other")
      [] f[n].kind = "symlink" ->
            IF hops = 0 THEN SysErr("FilesystemLoop")
            ELSE Resolve(f, f[n].to, hops - 1)
      [] OTHER -> SysOk(f[n].kind, f[n].len, n, f[n].entries)

\* FsCanonicalize following the link of the path itself only (as read_link
\* does), not the whole chain
FsCanonicalize_OneHop(f, p) ==
    IF f[p.name].kind = "symlink"
    THEN IF f[f[p.name].to].kind = "absent" THEN SysErr("NotFound")
         ELSE SysOk(f[f[p.name].to].kind, f[f[p.name].to].len, f[p.name].to,
                    f[f[p.name].to].entries)
    ELSE Resolve(f, p.name, SymlinkHops)

\* fs::canonicalize: the absolute, symlink-free form of the path
FsCanonicalize(f, p) == Resolve(f, p.name, SymlinkHops)

\* Path::read_dir: opendir follows symbolic links
FsReadDir(f, n) ==
    LET r == Resolve(f, n, SymlinkHops)
    IN  IF r.ok /\ r.kind # "dir" THEN SysErr("NotADirectory") ELSE r

\* Path::read_link: the one-hop target of a symbolic link
FsReadLink(f, n) ==
    IF f[n].kind = "symlink" THEN SysOk("symlink", 0, f[n].to, <<>>)
    ELSE IF f[n].kind = "absent" THEN SysErr("NotFound")
    ELSE SysErr("InvalidInput")

\* fs::remove_dir: rmdir, non-recursive, does not follow a symbolic link
FsRemoveDir(f, n) ==
    CASE f[n].kind = "absent" -> SysErr("NotFound")
      [] f[n].kind \in {"noaccess", "ioerror"} -> SysErr("PermissionDenied")
      [] f[n].kind # "dir" -> SysErr("NotADirectory")
      [] f[n].entries # <<>> -> SysErr("DirectoryNotEmpty")
      [] OTHER -> SysOk("dir", 0, n, <<>>)

\* fs::remove_file: unlink, removes the name itself, never what a link points to
FsRemoveFile(f, n) ==
    CASE f[n].kind = "absent" -> SysErr("NotFound")
      [] f[n].kind \in {"noaccess", "ioerror"} -> SysErr("PermissionDenied")
      [] f[n].kind = "dir" -> SysErr("IsADirectory")
      [] OTHER -> SysOk(f[n].kind, f[n].len, n, <<>>)

\* the filesystem after the name was unlinked
Unlinked(f, n) == [f EXCEPT ![n] = Absent]

(***************************************************************************)
(* Values of start().                                                      *)
(***************************************************************************)
Pending == [tag |-> "none", code |-> 0]
OkUnit == [tag |-> "Ok", code |-> 0]        \* Ok(())
ErrCode(n) == [tag |-> "Err", code |-> n]   \* Err(n_i32)

NotReturned == [tag |-> "none", re |-> Pending]
AnyhowErr == [tag |-> "Err", re |-> Pending]   \* start() returned Err(anyhow)
Returned(re) == [tag |-> "Ok", re |-> re]      \* start() returned Ok(exit_code)

None == [tag |-> "None", form |-> NoPath]
Some(form) == [tag |-> "Some", form |-> form]

NoReport == [category |-> "none", directories |-> 0, files |-> 0, symlinks |-> 0,
             total_items |-> 0, bytes |-> 0]
Reported(c) == [NoReport EXCEPT !.category = c]

\* what a step of start() decides: where control goes, the exit code it
\* sets, whether an error is propagated (? or bail!), what it prints and
\* the classification it reports
Goto(l, out, rep) ==
    [pc |-> l, exit_code |-> Pending, fatal |-> FALSE, out |-> out, report |-> rep]
Exit(re, out, rep) ==
    [pc |-> "finish", exit_code |-> re, fatal |-> FALSE, out |-> out, report |-> rep]
Bail(out) ==
    [pc |-> "returned", exit_code |-> Pending, fatal |-> TRUE, out |-> out,
     report |-> NoReport]

\* Canonicalize taking every failure of fs::canonicalize for "not found"
Canonicalize_AllErrorsNone(f, p, utf8) ==
    LET r == FsCanonicalize(f, p)
    IN  IF r.ok
        THEN IF utf8
             THEN [tag |-> "Some", form |-> PathStr(TRUE, r.name),
                   out |-> <<"msg:canonicalized">>]
             ELSE [tag |-> "Err", form |-> NoPath, out |-> <<>>]
        ELSE [tag |-> "None", form |-> NoPath,
              out |-> <<"msg:could_not_canonicalize">>]

(***************************************************************************)
(* canonicalize(), lines 319-352.  utf8 tells whether the canonical path   *)
(* converts to a UTF-8 string.                                             *)
(***************************************************************************)
Canonicalize(f, p, utf8) ==
    LET r == FsCanonicalize(f, p)
    IN  IF r.ok
        THEN IF utf8
             THEN [tag |-> "Some", form |-> PathStr(TRUE, r.name),
                   out |-> <<"msg:canonicalized">>]
             ELSE [tag |-> "Err", form |-> NoPath, out |-> <<>>]
        ELSE IF r.err = "NotFound"
             THEN [tag |-> "None", form |-> NoPath,
                   out |-> <<"msg:could_not_canonicalize">>]
             ELSE [tag |-> "Err", form |-> NoPath, out |-> <<>>]

(***************************************************************************)
(* The decisions of start(), one operator per match or if of the source.   *)
(***************************************************************************)
\* lines 71-89, 178, 230, 297-299: the match on the probe's result
ProbeOutcome(r) ==
    IF ~r.ok
    THEN CASE r.err = "NotFound" -> Exit(ErrCode(11), <<"msg:does_not_exist">>, NoReport)
           [] r.err = "PermissionDenied" ->
                Exit(ErrCode(12), <<"msg:permission_denied">>, NoReport)
           [] OTHER -> Bail(<<>>)
    ELSE CASE r.kind = "dir" -> Goto("dir_canonicalize", <<>>, NoReport)
           [] r.kind = "file" -> Goto("file_canonicalize", <<>>, NoReport)
           [] r.kind = "symlink" -> Goto("link_read_link", <<>>, NoReport)
           [] OTHER -> Bail(<<>>)

\* DirCanonOutcome taking None for "the path does not exist"
DirCanonOutcome_SoftNone(c) ==
    CASE c.tag = "Some" -> Goto("dir_read_dir", c.out, NoReport)
      [] c.tag = "None" ->
            Exit(ErrCode(11), c.out \o <<"msg:does_not_exist">>, NoReport)
      [] OTHER -> Bail(c.out)

\* lines 90-91: canonicalize(..)?.context(..)? for a directory
DirCanonOutcome(c) ==
    IF c.tag = "Some" THEN Goto("dir_read_dir", c.out, NoReport) ELSE Bail(c.out)

\* line 93: read_dir().context(..)?
ReadDirOutcome(r) ==
    IF r.ok THEN Goto("dir_enumerate", <<>>, NoReport) ELSE Bail(<<>>)

\* EntryCounts passing over an entry that is no directory, file or symlink
EntryCounts_SkipsOther(kind, d, f, s) ==
    CASE kind = "dir" -> [ok |-> TRUE, directories |-> d + 1, files |-> f, symlinks |-> s]
      [] kind = "file" -> [ok |-> TRUE, directories |-> d, files |-> f + 1, symlinks |-> s]
      [] kind = "symlink" ->
            [ok |-> TRUE, directories |-> d, files |-> f, symlinks |-> s + 1]
      [] OTHER -> [ok |-> TRUE, directories |-> d, files |-> f, symlinks |-> s]

\* lines 106-121: the counters after one directory entry of the given kind
EntryCounts(kind, d, f, s) ==
    CASE kind = "dir" -> [ok |-> TRUE, directories |-> d + 1, files |-> f, symlinks |-> s]
      [] kind = "file" -> [ok |-> TRUE, directories |-> d, files |-> f + 1, symlinks |-> s]
      [] kind = "symlink" ->
            [ok |-> TRUE, directories |-> d, files |-> f, symlinks |-> s + 1]
      [] OTHER -> [ok |-> FALSE, directories |-> d, files |-> f, symlinks |-> s]

\* DirectoryOutcome with the test of delete_if_empty (line 147) left out
DirectoryOutcome_IgnoresFlag(d, f, s, del) ==
    LET total_items == d + f + s
    IN  IF total_items > 0
        THEN Exit(ErrCode(31), <<"report:NonEmptyDirectory">>,
                  [Reported("NonEmptyDirectory") EXCEPT
                      !.directories = d, !.files = f, !.symlinks = s,
                      !.total_items = total_items])
        ELSE Goto("dir_confirm", <<"report:EmptyDirectory", "prompt">>,
                  Reported("EmptyDirectory"))

\* lines 124-176: the report on an enumerated directory
DirectoryOutcome(d, f, s, del) ==
    LET total_items == d + f + s
    IN  IF total_items > 0
        THEN Exit(ErrCode(31), <<"report:NonEmptyDirectory">>,
                  [Reported("NonEmptyDirectory") EXCEPT
                      !.directories = d, !.files = f, !.symlinks = s,
                      !.total_items = total_items])
        ELSE IF del
             THEN Goto("dir_confirm", <<"report:EmptyDirectory", "prompt">>,
                       Reported("EmptyDirectory"))
             ELSE Exit(OkUnit, <<"report:EmptyDirectory">>, Reported("EmptyDirectory"))

\* FileOutcome with the test of delete_if_empty (line 202) left out
FileOutcome_IgnoresFlag(c, len, del) ==
    IF c.tag # "Some" THEN Bail(c.out)
    ELSE IF len > 0
    THEN Exit(ErrCode(21), c.out \o <<"report:NonEmptyFile">>,
              [Reported("NonEmptyFile") EXCEPT !.bytes = len])
    ELSE Goto("file_confirm", c.out \o <<"report:EmptyFile", "prompt">>,
              Reported("EmptyFile"))

\* lines 179-228: canonicalize and report on a regular file of length len
FileOutcome(c, len, del) ==
    IF c.tag # "Some" THEN Bail(c.out)
    ELSE IF len > 0
    THEN Exit(ErrCode(21), c.out \o <<"report:NonEmptyFile">>,
              [Reported("NonEmptyFile") EXCEPT !.bytes = len])
    ELSE IF del
         THEN Goto("file_confirm", c.out \o <<"report:EmptyFile", "prompt">>,
                   Reported("EmptyFile"))
         ELSE Exit(OkUnit, c.out \o <<"report:EmptyFile">>, Reported("EmptyFile"))

\* lines 231-237: read_link().context(..)? and to_str().context(..)?
ReadLinkOutcome(r, utf8) ==
    IF r.ok /\ utf8 THEN Goto("link_canonicalize", <<>>, NoReport) ELSE Bail(<<>>)

\* LinkOutcome with the test of delete_if_empty (line 262) left out
LinkOutcome_IgnoresFlag(c, del) ==
    CASE c.tag = "Err" -> Bail(c.out)
      [] c.tag = "Some" ->
            Exit(ErrCode(41), c.out \o <<"report:LiveSymlink">>, Reported("LiveSymlink"))
      [] OTHER ->
            Goto("link_confirm", c.out \o <<"report:DanglingSymlink", "prompt">>,
                 Reported("DanglingSymlink"))

\* lines 239-293: canonicalize and report on a symbolic link
LinkOutcome(c, del) ==
    CASE c.tag = "Err" -> Bail(c.out)
      [] c.tag = "Some" ->
            Exit(ErrCode(41), c.out \o <<"report:LiveSymlink">>, Reported("LiveSymlink"))
      [] OTHER ->
            IF del
            THEN Goto("link_confirm", c.out \o <<"report:DanglingSymlink", "prompt">>,
                      Reported("DanglingSymlink"))
            ELSE Exit(OkUnit, c.out \o <<"report:DanglingSymlink">>,
                      Reported("DanglingSymlink"))

\* ConfirmOutcome comparing without regard to case
ConfirmOutcome_AnyCase(readOk, line, removal, declined) ==
    IF ~readOk THEN Bail(<<>>)
    ELSE IF line \in {"y\n", "Y\n"} THEN Goto(removal, <<>>, NoReport)
    ELSE Exit(ErrCode(declined), <<"msg:not_deleting">>, NoReport)

\* lines 156-158 and 168-172 (211-213, 220-224; 272-274, 285-289): the line
\* read decides between the removal and the declined code
ConfirmOutcome(readOk, line, removal, declined) ==
    IF ~readOk THEN Bail(<<>>)
    ELSE IF line = "y\n" THEN Goto(removal, <<>>, NoReport)
    ELSE Exit(ErrCode(declined), <<"msg:not_deleting">>, NoReport)

\* RemoveOutcome trying the removal again when it failed
RemoveOutcome_Retries(r) ==
    IF r.ok THEN Exit(OkUnit, <<"msg:deleted">>, NoReport) ELSE Goto(pc, <<>>, NoReport)

\* RemoveOutcome with the result of the removal call ignored
RemoveOutcome_IgnoresResult(r) == Exit(OkUnit, <<"msg:deleted">>, NoReport)

\* lines 160-167 (215-219, 277-284): the removal call, propagated with ?
RemoveOutcome(r) ==
    IF r.ok THEN Exit(OkUnit, <<"msg:deleted">>, NoReport) ELSE Bail(<<>>)

\* lines 304-308: the note on a non-zero exit code, then Ok(exit_code)
FinishOut(re) == IF re.tag = "Err" THEN <<"msg:exiting_nonzero">> ELSE <<>>

\* lines 43-53: main's match on what start() returned
MainResult(res) == IF res.tag = "Ok" THEN res.re ELSE ErrCode(1)

\* line 30: main returns Result<(), i32>.  The runtime turns that value into
\* the exit status with std's Termination for Result<(), E: Debug>: Ok(())
\* is status 0; Err(e) prints "Error: {e:?}" and is ExitCode::FAILURE, 1,
\* whatever the number e is
ProcessExit(mr) == IF mr.tag = "Ok" THEN 0 ELSE 1

\* what main prints on stderr: the tracing::error! of lines 46-49, and the
\* runtime's "Error: .." for an Err
MainOut(res) ==
    (IF res.tag = "Err" THEN <<"log:error">> ELSE <<>>)
    \o (IF MainResult(res).tag = "Err" THEN <<"stderr:Error">> ELSE <<>>)

(***************************************************************************)
(* Inputs.                                                                 *)
(***************************************************************************)
\* what read_line may put into input: the confirmation token, end of file,
\* and near misses
Lines == {"y\n", "", "y", "Y\n", "yes\n", "y\r\n", "n\n"}

\* results of an I/O step that the filesystem model does not decide: it
\* succeeds, or (flaky environment only) it fails
IoOutcomes == IF flaky THEN {TRUE, FALSE} ELSE {TRUE}

MkFs(p, t, u) == [n \in Names |-> CASE n = "p" -> p [] n = "t" -> t [] OTHER -> u]

PNodes == {Absent, NoAccess, IoError, Other} \cup Files \cup Dirs
TNodes == {Absent, NoAccess, File(0), File(MaxLen), Dir(<<>>), Dir(<<"file">>),
           Link("p"), Link("t"), Link("u")}
UNodes == {Absent, File(0)}

\* the path under test, and for a symbolic link what its chain can reach
InitFs ==
    {MkFs(p, Absent, Absent) : p \in PNodes}
    \cup {MkFs(Link("p"), Absent, Absent)}
    \cup {MkFs(Link("u"), Absent, u) : u \in UNodes}
    \cup {MkFs(Link("t"), t, u) : t \in TNodes, u \in UNodes}

\* what a concurrent process may put in place of a name
EnvNodes == {Absent, File(0), File(MaxLen), Dir(<<>>), Dir(<<"file">>), Link("t")}

\* no removal call was issued yet
NoRemovalCall == [done |-> "no", node |-> Absent]

InitProgram ==
    /\ pc = "start"
    /\ removed = NoRemovalCall
    /\ me = SysErr("-")
    /\ canonicalize_result = None
    /\ link_path_buf = "-"
    /\ read_dir = <<>>
    /\ directories = 0
    /\ files = 0
    /\ symlinks = 0
    /\ input = ""
    /\ report = NoReport
    /\ exit_code = Pending
    /\ result = NotReturned
    /\ exitStatus = -1
    /\ trace = <<>>

Init ==
    /\ fs \in InitFs
    /\ fs0 = fs
    /\ flaky = FALSE
    /\ envMoves = 0
    /\ delete_if_empty \in BOOLEAN
    /\ path \in {PathStr(a, "p") : a \in BOOLEAN}
    /\ run = 1
    /\ history = <<>>
    /\ InitProgram

(***************************************************************************)
(* The steps of start() and main().                                        *)
(***************************************************************************)
\* the effect of a decision o, taken after the system calls `calls`
Apply(o, calls) ==
    /\ pc' = o.pc
    /\ exit_code' = o.exit_code
    /\ result' = IF o.fatal THEN AnyhowErr ELSE result
    /\ report' = IF o.report = NoReport THEN report ELSE o.report
    /\ trace' = trace \o calls \o o.out

fixed == <<fs0, flaky, envMoves, delete_if_empty, path, run, history, exitStatus,
           removed>>

\* lines 69-89: the top-level probe and the dispatch on its result
Probe ==
    /\ pc = "start"
    /\ LET r == SymlinkMetadata(fs, path.name)
       IN  /\ me' = r
           /\ Apply(ProbeOutcome(r), <<"symlink_metadata">>)
    /\ UNCHANGED <<fs, fixed, canonicalize_result, link_path_buf, read_dir,
                   directories, files, symlinks, input>>

\* lines 90-91
CanonicalizeDirectory ==
    /\ pc = "dir_canonicalize"
    /\ \E utf8 \in IoOutcomes :
         LET c == Canonicalize(fs, path, utf8)
         IN  /\ canonicalize_result' = IF c.tag = "Some" THEN Some(c.form) ELSE None
             /\ Apply(DirCanonOutcome(c), <<"canonicalize">>)
    /\ UNCHANGED <<fs, fixed, me, link_path_buf, read_dir, directories, files,
                   symlinks, input>>

\* lines 93-97
ReadDirectory ==
    /\ pc = "dir_read_dir"
    /\ LET r == FsReadDir(fs, path.name)
       IN  /\ read_dir' = r.entries
           /\ Apply(ReadDirOutcome(r), <<"read_dir">>)
    /\ directories' = 0
    /\ files' = 0
    /\ symlinks' = 0
    /\ UNCHANGED <<fs, fixed, me, canonicalize_result, link_path_buf, input>>

\* lines 99-122: one iteration of the loop over the directory's entries
NextEntry ==
    /\ pc = "dir_enumerate"
    /\ read_dir # <<>>
    /\ \E io \in IoOutcomes :
         LET n == EntryCounts(Head(read_dir), directories, files, symlinks)
         IN  /\ directories' = IF io THEN n.directories ELSE directories
             /\ files' = IF io THEN n.files ELSE files
             /\ symlinks' = IF io THEN n.symlinks ELSE symlinks
             /\ Apply(IF io /\ n.ok THEN Goto("dir_enumerate", <<>>, NoReport)
                      ELSE Bail(<<>>), <<>>)
    /\ read_dir' = Tail(read_dir)
    /\ UNCHANGED <<fs, fixed, me, canonicalize_result, link_path_buf, input>>

\* lines 124-152, 173-176: the iterator is exhausted
ReportDirectory ==
    /\ pc = "dir_enumerate"
    /\ read_dir = <<>>
    /\ Apply(DirectoryOutcome(directories, files, symlinks, delete_if_empty), <<>>)
    /\ UNCHANGED <<fs, fixed, me, canonicalize_result, link_path_buf, read_dir,
                   directories, files, symlinks, input>>

\* lines 179-207, 225-228: len is the probe's, not read again
ReportFile ==
    /\ pc = "file_canonicalize"
    /\ \E utf8 \in IoOutcomes :
         LET c == Canonicalize(fs, path, utf8)
         IN  /\ canonicalize_result' = IF c.tag = "Some" THEN Some(c.form) ELSE None
             /\ Apply(FileOutcome(c, me.len, delete_if_empty), <<"canonicalize">>)
    /\ UNCHANGED <<fs, fixed, me, link_path_buf, read_dir, directories, files,
                   symlinks, input>>

\* lines 231-237
ReadLink ==
    /\ pc = "link_read_link"
    /\ \E utf8 \in IoOutcomes :
         LET r == FsReadLink(fs, path.name)
         IN  /\ link_path_buf' = IF r.ok THEN r.name ELSE link_path_buf
             /\ Apply(ReadLinkOutcome(r, utf8), <<"read_link">>)
    /\ UNCHANGED <<fs, fixed, me, canonicalize_result, read_dir, directories, files,
                   symlinks, input>>

\* lines 239-268, 290-293
ReportLink ==
    /\ pc = "link_canonicalize"
    /\ \E utf8 \in IoOutcomes :
         LET c == Canonicalize(fs, path, utf8)
         IN  /\ canonicalize_result' = IF c.tag = "Some" THEN Some(c.form) ELSE None
             /\ Apply(LinkOutcome(c, delete_if_empty), <<"canonicalize">>)
    /\ UNCHANGED <<fs, fixed, me, link_path_buf, read_dir, directories, files,
                   symlinks, input>>

\* one read_line and the comparison with "y\n"
Confirm(at, removal, declined) ==
    /\ pc = at
    /\ \E readOk \in IoOutcomes, line \in Lines :
         /\ input' = IF readOk THEN line ELSE input
         /\ Apply(ConfirmOutcome(readOk, line, removal, declined), <<"read_line">>)
    /\ UNCHANGED <<fs, fixed, me, canonicalize_result, link_path_buf, read_dir,
                   directories, files, symlinks>>

\* lines 154-158, 168-172
ConfirmDirectory == Confirm("dir_confirm", "dir_remove", 32)

\* lines 209-213, 220-224
ConfirmFile == Confirm("file_confirm", "file_remove", 22)

\* lines 270-274, 285-289
ConfirmLink == Confirm("link_confirm", "link_remove", 42)

\* one removal call; on success the name is gone
Remove(at, r, call) ==
    /\ pc = at
    /\ fs' = IF r.ok THEN Unlinked(fs, path.name) ELSE fs
    /\ removed' = [done |-> IF r.ok THEN "ok" ELSE "failed", node |-> fs[path.name]]
    /\ Apply(RemoveOutcome(r), <<call>>)
    /\ UNCHANGED <<fs0, flaky, envMoves, delete_if_empty, path, run, history,
                   exitStatus, me, canonicalize_result, link_path_buf, read_dir,
                   directories, files, symlinks, input>>

\* lines 160-167
RemoveDirectory == Remove("dir_remove", FsRemoveDir(fs, path.name), "remove_dir")

\* lines 215-219
RemoveFile == Remove("file_remove", FsRemoveFile(fs, path.name), "remove_file")

\* lines 277-284
RemoveLink == Remove("link_remove", FsRemoveFile(fs, path.name), "remove_file")

\* lines 304-308
Finish ==
    /\ pc = "finish"
    /\ pc' = "returned"
    /\ result' = Returned(exit_code)
    /\ trace' = trace \o FinishOut(exit_code)
    /\ UNCHANGED <<fs, fixed, me, canonicalize_result, link_path_buf, read_dir,
                   directories, files, symlinks, input, report, exit_code>>

\* lines 41-54 and the runtime's conversion of main's value
Main ==
    /\ pc = "returned"
    /\ pc' = "exited"
    /\ exitStatus' = ProcessExit(MainResult(result))
    /\ trace' = trace \o MainOut(result)
    /\ history' = Append(history, [category |-> report.category,
                                   returned |-> MainResult(result),
                                   status |-> ProcessExit(MainResult(result))])
    /\ UNCHANGED <<fs, fs0, flaky, envMoves, delete_if_empty, path, run, me,
                   canonicalize_result, link_path_buf, read_dir, directories, files,
                   symlinks, input, report, exit_code, result, removed>>

\* the same command line is run again
Rerun ==
    /\ pc = "exited"
    /\ run < MaxRuns
    /\ run' = run + 1
    /\ pc' = "start"
    /\ me' = SysErr("-")
    /\ canonicalize_result' = None
    /\ link_path_buf' = "-"
    /\ read_dir' = <<>>
    /\ directories' = 0
    /\ files' = 0
    /\ symlinks' = 0
    /\ input' = ""
    /\ report' = NoReport
    /\ exit_code' = Pending
    /\ result' = NotReturned
    /\ exitStatus' = -1
    /\ trace' = <<>>
    /\ removed' = NoRemovalCall
    /\ fs0' = fs
    /\ UNCHANGED <<fs, flaky, envMoves, delete_if_empty, path, history>>

\* a concurrent process replaces one name while the program runs
EnvMutate ==
    /\ pc # "exited"
    /\ envMoves < MaxEnvMoves
    /\ envMoves' = envMoves + 1
    /\ \E n \in Names, node \in EnvNodes :
         /\ fs[n] # node
         /\ fs' = [fs EXCEPT ![n] = node]
    /\ UNCHANGED <<fs0, flaky, delete_if_empty, path, pc, progVars, trace, run,
                   history>>

Step ==
    \/ Probe
    \/ CanonicalizeDirectory
    \/ ReadDirectory
    \/ NextEntry
    \/ ReportDirectory
    \/ ReportFile
    \/ ReadLink
    \/ ReportLink
    \/ ConfirmDirectory
    \/ ConfirmFile
    \/ ConfirmLink
    \/ RemoveDirectory
    \/ RemoveFile
    \/ RemoveLink
    \/ Finish
    \/ Main

Next == Step \/ Rerun

\* invocations in a row, the program alone: nothing else touches the filesystem, and an I/O call
\* fails only as the filesystem state makes it fail
Spec == Init /\ [][Next]_vars

InitEnv ==
    /\ fs \in InitFs
    /\ fs0 = fs
    /\ flaky \in BOOLEAN
    /\ envMoves = 0
    /\ delete_if_empty \in BOOLEAN
    /\ path \in {PathStr(a, "p") : a \in BOOLEAN}
    /\ run = 1
    /\ history = <<>>
    /\ InitProgram

NextEnv == Step \/ EnvMutate

\* one invocation beside a process that mutates the filesystem, with I/O
\* calls that may fail
SpecEnv == InitEnv /\ [][NextEnv]_vars

(***************************************************************************)
(* Vocabulary of the properties.                                           *)
(***************************************************************************)
Done == pc = "exited"
Target == path.name
Did(e) == \E i \in DOMAIN trace : trace[i] = e
Count(e) == Cardinality({i \in DOMAIN trace : trace[i] = e})
Removals == {"remove_dir", "remove_file"}
NoRemoval == \A i \in DOMAIN trace : trace[i] \notin Removals
NoPrompt == ~Did("prompt") /\ ~Did("read_line")
EmptyCategories == {"EmptyDirectory", "EmptyFile", "DanglingSymlink"}
EmptyReports == {"report:EmptyDirectory", "report:EmptyFile", "report:DanglingSymlink"}
\* the value main returns, as a number: 0 for Ok(()), n for Err(n)
ReturnedCode == IF MainResult(result).tag = "Ok" THEN 0 ELSE MainResult(result).code
DocumentedCodes == {0, 1, 11, 12, 21, 22, 31, 32, 41, 42}

\* the path as the invocation found it
WasEmptyDirectory == fs0[Target] = Dir(<<>>)
WasNonEmptyDirectory ==
    /\ fs0[Target].kind = "dir"
    /\ fs0[Target].entries # <<>>
    /\ \A i \in DOMAIN fs0[Target].entries :
          fs0[Target].entries[i] \in {"dir", "file", "symlink"}
WasEmptyFile == fs0[Target] = File(0)
WasNonEmptyFile == fs0[Target].kind = "file" /\ fs0[Target].len > 0
WasDanglingLink ==
    /\ fs0[Target].kind = "symlink"
    /\ Resolve(fs0, Target, SymlinkHops).err = "NotFound"
WasLiveLink == fs0[Target].kind = "symlink" /\ Resolve(fs0, Target, SymlinkHops).ok

(***************************************************************************)
(* C1.  When the top-level probe reports not-found, the invocation ends    *)
(* with exit code 11 whatever delete_if_empty is, and it canonicalizes     *)
(* nothing, prompts for nothing, reads no line and removes nothing.        *)
(***************************************************************************)
C1_NotFoundExits11 ==
    (Done /\ me.err = "NotFound") =>
        /\ exitStatus = 11
        /\ ~Did("canonicalize")
        /\ NoPrompt
        /\ NoRemoval
        /\ fs = fs0

\* the same with the code start() hands to main in place of the exit status
C1_NotFoundReturns11 ==
    (Done /\ me.err = "NotFound") =>
        /\ ReturnedCode = 11
        /\ Did("msg:does_not_exist")
        /\ ~Did("canonicalize")
        /\ NoPrompt
        /\ NoRemoval
        /\ fs = fs0

C1_Witness == Done /\ me.err = "NotFound" /\ delete_if_empty /\ ReturnedCode = 11

(***************************************************************************)
(* C2.  An empty directory with delete_if_empty: the line "y\n" removes    *)
(* the directory and the exit code is 0; after any other line the          *)
(* directory still exists and the exit code is 32.                         *)
(***************************************************************************)
C2_EmptyDirectoryDeletion ==
    (Done /\ WasEmptyDirectory /\ delete_if_empty) =>
        /\ input = "y\n" => (fs[Target] = Absent /\ exitStatus = 0)
        /\ input # "y\n" => (fs[Target] = Dir(<<>>) /\ exitStatus = 32)

\* the same with the code start() hands to main in place of the exit status
C2_EmptyDirectoryReturns ==
    (Done /\ WasEmptyDirectory /\ delete_if_empty) =>
        /\ input = "y\n" => (fs = Unlinked(fs0, Target) /\ ReturnedCode = 0
                              /\ Did("remove_dir"))
        /\ input # "y\n" => (fs = fs0 /\ ReturnedCode = 32 /\ NoRemoval)

C2_Witness ==
    Done /\ WasEmptyDirectory /\ delete_if_empty /\ input = "Y\n" /\ ReturnedCode = 32

(***************************************************************************)
(* C3.  A symbolic link whose target does not exist, with delete_if_empty: *)
(* declined, the link still exists and the exit code is 42; confirmed, the *)
(* link itself and nothing else is removed and the exit code is 0.         *)
(***************************************************************************)
C3_DanglingLinkDeletion ==
    (Done /\ WasDanglingLink /\ delete_if_empty) =>
        /\ input # "y\n" => (fs = fs0 /\ exitStatus = 42)
        /\ input = "y\n" => (fs = Unlinked(fs0, Target) /\ exitStatus = 0)

\* the same with the code start() hands to main in place of the exit status
C3_DanglingLinkReturns ==
    (Done /\ WasDanglingLink /\ delete_if_empty) =>
        /\ input # "y\n" => (fs = fs0 /\ ReturnedCode = 42 /\ NoRemoval)
        /\ input = "y\n" => (fs = Unlinked(fs0, Target) /\ ReturnedCode = 0
                              /\ Did("remove_file") /\ ~Did("remove_dir"))

C3_Witness ==
    Done /\ WasDanglingLink /\ delete_if_empty /\ input = "" /\ ReturnedCode = 42
         /\ fs0[Target].to = "t" /\ fs0["t"].kind = "symlink"

(***************************************************************************)
(* C4.  A symbolic link whose target exists (an empty file or an empty     *)
(* directory included) always ends with exit code 41, whatever             *)
(* delete_if_empty is; nothing is prompted, no line is read, and neither   *)
(* the link nor its target is removed.                                     *)
(***************************************************************************)
C4_LiveLinkExits41 ==
    (Done /\ WasLiveLink) => (exitStatus = 41 /\ NoPrompt /\ NoRemoval /\ fs = fs0)

\* the same with the code start() hands to main in place of the exit status
C4_LiveLinkReturns41 ==
    (Done /\ WasLiveLink) =>
        /\ ReturnedCode = 41
        /\ report.category = "LiveSymlink"
        /\ NoPrompt
        /\ NoRemoval
        /\ fs = fs0

C4_Witness ==
    Done /\ WasLiveLink /\ delete_if_empty /\ fs0["t"] = Dir(<<>>) /\ ReturnedCode = 41

(***************************************************************************)
(* C5.  A directory with at least one immediate entry, each a file, a      *)
(* subdirectory or a symlink, ends with exit code 31 whatever              *)
(* delete_if_empty is, and the reported counts satisfy directories +       *)
(* files + symlinks = total items = the number of immediate entries.       *)
(***************************************************************************)
C5_NonEmptyDirectoryExits31 ==
    (Done /\ WasNonEmptyDirectory) =>
        /\ exitStatus = 31
        /\ report.directories + report.files + report.symlinks = report.total_items
        /\ report.total_items = Len(fs0[Target].entries)

\* the same with the code start() hands to main in place of the exit status
C5_NonEmptyDirectoryReturns31 ==
    (Done /\ WasNonEmptyDirectory) =>
        /\ ReturnedCode = 31
        /\ report.category = "NonEmptyDirectory"
        /\ report.directories + report.files + report.symlinks = report.total_items
        /\ report.total_items = Len(fs0[Target].entries)
        /\ report.directories =
              Cardinality({i \in DOMAIN fs0[Target].entries : fs0[Target].entries[i] = "dir"})
        /\ NoPrompt
        /\ NoRemoval

C5_Witness ==
    Done /\ fs0[Target] = Dir(<<"dir", "dir">>) /\ delete_if_empty /\ ReturnedCode = 31

(***************************************************************************)
(* C6.  An existing regular file of length 0 with delete_if_empty false    *)
(* ends with exit code 0 and is left untouched: no removal call, no        *)
(* prompt.                                                                 *)
(***************************************************************************)
C6_EmptyFileLeftUntouched ==
    (Done /\ WasEmptyFile /\ ~delete_if_empty) =>
        /\ exitStatus = 0
        /\ ReturnedCode = 0
        /\ report.category = "EmptyFile"
        /\ fs = fs0
        /\ NoRemoval
        /\ NoPrompt

C6_Witness ==
    Done /\ WasEmptyFile /\ ~delete_if_empty /\ exitStatus = 0
         /\ Did("report:EmptyFile") /\ fs[Target] = File(0)

(***************************************************************************)
(* C7.  A removal call is issued only after, in this order, the report of  *)
(* EmptyDirectory, EmptyFile or DanglingSymlink, the prompt, and the read  *)
(* of one line equal to "y\n", with delete_if_empty true; there is at most *)
(* one removal call per invocation, remove_dir for a directory and         *)
(* remove_file for a file or a symlink, and it removes the one name only.  *)
(***************************************************************************)
C7_RemovalOnlyAfterConfirmation ==
    \A i \in DOMAIN trace :
        trace[i] \in Removals =>
            /\ delete_if_empty
            /\ report.category \in EmptyCategories
            /\ \E a, b, c \in 1..(i - 1) :
                  /\ a < b
                  /\ b < c
                  /\ trace[a] = "report:" \o report.category
                  /\ trace[b] = "prompt"
                  /\ trace[c] = "read_line"
            /\ Count("read_line") = 1
            /\ input = "y\n"
            /\ Count("remove_dir") + Count("remove_file") = 1
            /\ trace[i] = "remove_dir" <=> report.category = "EmptyDirectory"
            /\ trace[i] = "remove_file" <=>
                  report.category \in {"EmptyFile", "DanglingSymlink"}
            /\ (envMoves = 0 /\ Did("msg:deleted")) =>
                  (fs = Unlinked(fs0, Target) /\ fs0[Target].entries = <<>>)

C7_Witness ==
    /\ Done
    /\ Did("remove_file")
    /\ Did("msg:deleted")
    /\ report.category = "DanglingSymlink"
    /\ fs[Target] = Absent

(***************************************************************************)
(* C8.  Every invocation ends with exactly one exit code, one of 0, 1, 11, *)
(* 12, 21, 22, 31, 32, 41, 42; code 1 exactly when a fatal error came out  *)
(* of start(), and every other non-zero code exactly when its              *)
(* classification outcome was reached.                                     *)
(***************************************************************************)
OutcomeOf(code) ==
    CASE code = 11 -> Did("msg:does_not_exist")
      [] code = 12 -> Did("msg:permission_denied")
      [] code = 21 -> Did("report:NonEmptyFile")
      [] code = 22 -> Did("report:EmptyFile") /\ Did("msg:not_deleting")
      [] code = 31 -> Did("report:NonEmptyDirectory")
      [] code = 32 -> Did("report:EmptyDirectory") /\ Did("msg:not_deleting")
      [] code = 41 -> Did("report:LiveSymlink")
      [] code = 42 -> Did("report:DanglingSymlink") /\ Did("msg:not_deleting")
      [] OTHER -> FALSE

C8_ExitCodeContract ==
    Done =>
        /\ exitStatus \in DocumentedCodes
        /\ exitStatus = 1 <=> result.tag = "Err"
        /\ \A code \in DocumentedCodes \ {0, 1} : exitStatus = code <=> OutcomeOf(code)

\* the same with the value main returns in place of the exit status
C8_ReturnedCodeContract ==
    Done =>
        /\ ReturnedCode \in DocumentedCodes
        /\ ReturnedCode = 1 <=> result.tag = "Err"
        /\ \A code \in DocumentedCodes \ {0, 1} : ReturnedCode = code <=> OutcomeOf(code)

\* what the process does exit with: 0 for Ok(()), 1 for everything else
C8_ExitStatusIsZeroOrOne ==
    Done => (exitStatus = IF ReturnedCode = 0 THEN 0 ELSE 1)

C8_Witness == Done /\ ReturnedCode = 11 /\ result.tag = "Ok" /\ exitStatus = 1

(***************************************************************************)
(* C9.  Two invocations in a row with delete_if_empty false, on a path     *)
(* that nothing else changes, report the same category and end with the    *)
(* same exit code.                                                         *)
(***************************************************************************)
C9_ClassificationIdempotent ==
    ~delete_if_empty =>
        \A i, j \in DOMAIN history :
            /\ history[i].category = history[j].category
            /\ history[i].status = history[j].status
            /\ history[i].returned = history[j].returned

C9_Witness ==
    /\ ~delete_if_empty
    /\ Len(history) = 2
    /\ history[1].category = "EmptyDirectory"
    /\ history[2].category = "EmptyDirectory"
    /\ history[2].status = 0

(***************************************************************************)
(* C10.  An existing regular file of length greater than 0 ends with exit  *)
(* code 21 whatever delete_if_empty is, reporting that length; nothing is  *)
(* prompted and the file is not removed.                                   *)
(***************************************************************************)
C10_NonEmptyFileExits21 ==
    (Done /\ WasNonEmptyFile) =>
        /\ exitStatus = 21
        /\ report.bytes = fs0[Target].len
        /\ NoPrompt
        /\ NoRemoval
        /\ fs = fs0

\* the same with the code start() hands to main in place of the exit status
C10_NonEmptyFileReturns21 ==
    (Done /\ WasNonEmptyFile) =>
        /\ ReturnedCode = 21
        /\ report.category = "NonEmptyFile"
        /\ report.bytes = fs0[Target].len
        /\ NoPrompt
        /\ NoRemoval
        /\ fs = fs0

C10_Witness ==
    Done /\ WasNonEmptyFile /\ delete_if_empty /\ report.bytes = MaxLen
         /\ ReturnedCode = 21

(***************************************************************************)
(* C11.  An existing regular file of length 0 with delete_if_empty: the    *)
(* line "y\n" removes the file with remove_file and the exit code is 0;    *)
(* after any other line the file is not removed and the exit code is 22.   *)
(***************************************************************************)
C11_EmptyFileDeletion ==
    (Done /\ WasEmptyFile /\ delete_if_empty) =>
        /\ input = "y\n" =>
              (fs[Target] = Absent /\ Did("remove_file") /\ exitStatus = 0)
        /\ input # "y\n" => (fs[Target] = File(0) /\ NoRemoval /\ exitStatus = 22)

\* the same with the code start() hands to main in place of the exit status
C11_EmptyFileReturns ==
    (Done /\ WasEmptyFile /\ delete_if_empty) =>
        /\ input = "y\n" =>
              /\ fs = Unlinked(fs0, Target)
              /\ removed = [done |-> "ok", node |-> File(0)]
              /\ Did("remove_file")
              /\ ~Did("remove_dir")
              /\ ReturnedCode = 0
              /\ exitStatus = 0
        /\ input # "y\n" => (fs = fs0 /\ NoRemoval /\ ReturnedCode = 22)

C11_Witness ==
    Done /\ WasEmptyFile /\ delete_if_empty /\ input = "yes\n" /\ ReturnedCode = 22
         /\ fs[Target] = File(0)

(***************************************************************************)
(* C12.  When the top-level probe fails with permission denied, the        *)
(* invocation ends with exit code 12 whatever delete_if_empty is;          *)
(* canonicalization is never attempted, nothing is prompted and nothing    *)
(* is removed.                                                             *)
(***************************************************************************)
C12_PermissionDeniedExits12 ==
    (Done /\ me.err = "PermissionDenied") =>
        /\ exitStatus = 12
        /\ ~Did("canonicalize")
        /\ canonicalize_result = None
        /\ NoPrompt
        /\ NoRemoval

\* the same with the code start() hands to main in place of the exit status
C12_PermissionDeniedReturns12 ==
    (Done /\ me.err = "PermissionDenied") =>
        /\ ReturnedCode = 12
        /\ Did("msg:permission_denied")
        /\ ~Did("canonicalize")
        /\ canonicalize_result = None
        /\ report = NoReport
        /\ NoPrompt
        /\ NoRemoval

C12_Witness ==
    Done /\ me.err = "PermissionDenied" /\ delete_if_empty /\ ReturnedCode = 12

(***************************************************************************)
(* C13.  Whenever canonicalize returns a canonical form, canonicalizing    *)
(* that form again on the same filesystem returns the same form.           *)
(***************************************************************************)
C13_CanonicalRoundTrip ==
    canonicalize_result.tag = "Some" =>
        LET again == Canonicalize(fs0, canonicalize_result.form, TRUE)
        IN  /\ again.tag = "Some"
            /\ again.form = canonicalize_result.form

C13_Witness ==
    /\ canonicalize_result = Some(PathStr(TRUE, "u"))
    /\ ~path.abs
    /\ fs0[Target] = Link("t")
    /\ fs0["t"] = Link("u")
    /\ Did("msg:canonicalized")

(***************************************************************************)
(* C14.  Once the prompt was shown, exactly one line is read; the          *)
(* protocol is Confirmed (the removal is issued) if and only if the line   *)
(* is "y\n", and every other line is Declined: the category's declined     *)
(* code 22, 32 or 42, and no removal.                                      *)
(***************************************************************************)
DeclinedCode(c) ==
    CASE c = "EmptyFile" -> 22
      [] c = "EmptyDirectory" -> 32
      [] c = "DanglingSymlink" -> 42
      [] OTHER -> -1

C14_PromptEndsConfirmedOrDeclined ==
    (Done /\ Did("prompt")) =>
        /\ Count("read_line") = 1
        /\ input = "y\n" <=> removed.done # "no"
        /\ input = "y\n" <=> ~Did("msg:not_deleting")
        /\ input # "y\n" => (NoRemoval /\ exitStatus = DeclinedCode(report.category))

\* the same with the code start() hands to main in place of the exit status
C14_PromptReturnsConfirmedOrDeclined ==
    (Done /\ Did("prompt")) =>
        /\ Count("read_line") = 1
        /\ input = "y\n" <=> removed.done # "no"
        /\ input = "y\n" <=> ~Did("msg:not_deleting")
        /\ input # "y\n" =>
              (NoRemoval /\ fs = fs0 /\ ReturnedCode = DeclinedCode(report.category))

C14_Witness ==
    /\ Done
    /\ Did("prompt")
    /\ input = "y\r\n"
    /\ report.category = "EmptyDirectory"
    /\ ReturnedCode = 32
    /\ fs = fs0

(***************************************************************************)
(* C15.  When the line is "y\n" and the removal call fails, the invocation *)
(* ends with the fatal exit code 1, never with 0 nor with a declined code, *)
(* and no "Deleted" report is emitted.                                     *)
(***************************************************************************)
C15_RemovalFailureIsFatal ==
    (Done /\ input = "y\n" /\ removed.done = "failed") =>
        /\ exitStatus = 1
        /\ result = AnyhowErr
        /\ ReturnedCode = 1
        /\ ~Did("msg:deleted")
        /\ ~Did("msg:not_deleting")
        /\ Count("remove_dir") + Count("remove_file") = 1

C15_Witness ==
    /\ Done
    /\ input = "y\n"
    /\ report.category = "EmptyDirectory"
    /\ removed = [done |-> "failed", node |-> Dir(<<"file">>)]
    /\ fs[Target] = Dir(<<"file">>)
    /\ exitStatus = 1

(***************************************************************************)
(* C16.  Between the prompt and the removal call there is exactly one      *)
(* read of stdin and no probe of the path, and the removal is attempted    *)
(* once, without retry.  So beside a process that mutates the filesystem   *)
(* a file that was empty when classified and is not when "y\n" is read is  *)
(* removed, with exit code 0 (the witness).                                *)
(***************************************************************************)
Probes == {"symlink_metadata", "canonicalize", "read_dir", "read_link"}

C16_NoReprobeNoRetry ==
    /\ Count("remove_dir") + Count("remove_file") <= 1
    /\ \A i, j \in DOMAIN trace :
          (trace[i] = "prompt" /\ i < j) => trace[j] \notin Probes
    /\ \A i, j \in DOMAIN trace :
          (trace[i] = "prompt" /\ trace[j] \in Removals) =>
              (j = i + 2 /\ trace[i + 1] = "read_line")
    /\ report.category = "EmptyFile" => me.len = 0
    /\ (Done /\ removed.done = "ok") =>
          /\ exitStatus = 0
          /\ Did("msg:deleted")
          /\ removed.node.kind = "dir" <=> report.category = "EmptyDirectory"
    /\ (Done /\ removed.done = "failed") => exitStatus = 1

C16_Witness ==
    /\ Done
    /\ fs0[Target] = File(0)
    /\ report.category = "EmptyFile"
    /\ me.len = 0
    /\ input = "y\n"
    /\ removed = [done |-> "ok", node |-> File(MaxLen)]
    /\ MaxLen > 0
    /\ fs[Target] = Absent
    /\ Did("msg:deleted")
    /\ exitStatus = 0

(***************************************************************************)
(* C17.  When the probe saw a directory or a regular file and              *)
(* canonicalization then reports not-found, the invocation ends with the   *)
(* fatal exit code 1, not with 11 and without a classification report;     *)
(* for a symbolic link the same not-found is no error and yields the       *)
(* DanglingSymlink classification.                                         *)
(***************************************************************************)
C17_VanishedPathIsFatal ==
    (Done /\ Did("msg:could_not_canonicalize")) =>
        /\ me.kind \in {"dir", "file"} =>
              /\ exitStatus = 1
              /\ result = AnyhowErr
              /\ ReturnedCode = 1
              /\ ~Did("msg:does_not_exist")
              /\ report = NoReport
              /\ NoPrompt
              /\ NoRemoval
        /\ me.kind = "symlink" =>
              /\ report.category = "DanglingSymlink"
              /\ Did("report:DanglingSymlink")
              /\ ~delete_if_empty => (result = Returned(OkUnit) /\ exitStatus = 0)

C17_Witness ==
    /\ Done
    /\ me.kind = "dir"
    /\ fs0[Target] = Dir(<<>>)
    /\ fs[Target] = Absent
    /\ Did("msg:could_not_canonicalize")
    /\ result = AnyhowErr
    /\ exitStatus = 1

(***************************************************************************)
(* C18.  A directory with an immediate child that is no directory, regular *)
(* file or symbolic link ends the invocation with the fatal exit code 1,   *)
(* whatever its other children: no NonEmptyDirectory and no EmptyDirectory *)
(* report, no prompt, nothing removed.                                     *)
(***************************************************************************)
HasOtherChild(node) ==
    /\ node.kind = "dir"
    /\ \E i \in DOMAIN node.entries : node.entries[i] \notin {"dir", "file", "symlink"}

C18_OtherChildIsFatal ==
    (Done /\ HasOtherChild(fs0[Target])) =>
        /\ exitStatus = 1
        /\ result = AnyhowErr
        /\ ReturnedCode = 1
        /\ report = NoReport
        /\ ~Did("report:NonEmptyDirectory")
        /\ ~Did("report:EmptyDirectory")
        /\ NoPrompt
        /\ NoRemoval
        /\ fs = fs0

C18_Witness ==
    /\ Done
    /\ fs0[Target] = Dir(<<"file", "other">>)
    /\ delete_if_empty
    /\ Did("read_dir")
    /\ files = 1
    /\ result = AnyhowErr
    /\ exitStatus = 1

(***************************************************************************)
(* C19.  For a top-level symbolic link whose full canonicalization fails   *)
(* for a reason other than not-found (a loop of links, no permission along *)
(* the chain), the invocation ends with the fatal exit code 1: the link is *)
(* reported neither live nor dangling, no prompt is shown and the link is  *)
(* not removed, even with delete_if_empty.                                 *)
(***************************************************************************)
HardCanonicalizeFailure(f, p) ==
    /\ f[p.name].kind = "symlink"
    /\ ~FsCanonicalize(f, p).ok
    /\ FsCanonicalize(f, p).err # "NotFound"

C19_LinkCanonicalizeErrorIsFatal ==
    (Done /\ HardCanonicalizeFailure(fs0, path)) =>
        /\ exitStatus = 1
        /\ result = AnyhowErr
        /\ ReturnedCode = 1
        /\ report = NoReport
        /\ ~Did("report:LiveSymlink")
        /\ ~Did("report:DanglingSymlink")
        /\ ~Did("msg:could_not_canonicalize")
        /\ NoPrompt
        /\ NoRemoval
        /\ fs = fs0

C19_Witness ==
    /\ Done
    /\ delete_if_empty
    /\ fs0[Target] = Link(Target)
    /\ FsCanonicalize(fs0, path).err = "FilesystemLoop"
    /\ Did("canonicalize")
    /\ fs[Target] = Link(Target)
    /\ result = AnyhowErr
    /\ exitStatus = 1

(***************************************************************************)
(* C20.  Without delete_if_empty no invocation shows a prompt, reads       *)
(* standard input or issues a removal call, whatever the path is and       *)
(* whatever the environment does meanwhile, and no step of the program     *)
(* changes the filesystem; in every invocation standard input is read at   *)
(* most once, and only right after a prompt.                               *)
(***************************************************************************)
ReadsOnlyAfterPrompt ==
    /\ Count("read_line") <= 1
    /\ \A j \in DOMAIN trace :
          trace[j] = "read_line" => (j > 1 /\ trace[j - 1] = "prompt")

InspectionOnly ==
    /\ ReadsOnlyAfterPrompt
    /\ ~delete_if_empty =>
          /\ NoPrompt
          /\ NoRemoval
          /\ removed = NoRemovalCall
          /\ pc \notin {"dir_confirm", "dir_remove", "file_confirm", "file_remove",
                        "link_confirm", "link_remove"}

C20_NoFlagNoEffect ==
    /\ []InspectionOnly
    /\ [][(~delete_if_empty /\ Step) => fs' = fs]_vars

C20_Witness ==
    /\ Done
    /\ ~delete_if_empty
    /\ envMoves = 1
    /\ fs # fs0
    /\ report.category = "DanglingSymlink"
    /\ result = Returned(OkUnit)
    /\ exitStatus = 0
====
